---- MODULE Spec2Model ----
(***************************************************************************)
(* Model of src/tester.py, the "Nightpass Survivor Test Runner": main()    *)
(* cleans old outputs, compiles the Java sources, enumerates the fixture   *)
(* files, runs the compiled program once per fixture and tallies the       *)
(* results into a summary that decides the process exit code.              *)
(*                                                                         *)
(* The file system, the compiler and the tested program are the            *)
(* environment: what they answer is drawn nondeterministically at the      *)
(* point where the code observes it.  Strings that are compared or sorted  *)
(* (file names, file contents) are sequences of character codes.           *)
(***************************************************************************)
EXTENDS Integers, Sequences, FiniteSets, TLC

VARIABLES
    pc,            \* position of main(): see PcValues
    verbose,       \* args.verbose
    benchmark,     \* args.benchmark
    cleaned,       \* clean_outputs() has returned
    build,         \* what compile_java() met: "none" before it runs, else a BuildOutcomes value
    compiled,      \* return value of compile_java() (FALSE until it has returned True)
    enumerated,    \* get_test_files() has been called
    input_files,   \* run_tests: the sorted list returned by get_test_files()
    results,       \* run_tests: list of result records, in the order appended
    passed,        \* run_tests counters
    failed,
    skipped,
    completed,
    attempts,      \* history: the input files handed to run_single_test, in call order
    launched,      \* history: the input files for which the java subprocess was started
    last,          \* the environment the latest run_single_test call observed
    verdict,       \* the closing banner printed by run_tests
    summary,       \* the dict returned by run_tests (total = -1 before it returns)
    exit_code,     \* argument of sys.exit (-1 while the process is running)
    twin           \* the same invocation with --verbose flipped, fed the same environment

vars == <<pc, verbose, benchmark, cleaned, build, compiled, enumerated,
          input_files, results, passed, failed, skipped, completed, attempts,
          launched, last, verdict, summary, exit_code, twin>>

(***************************************************************************)
(* Bounds of the model.                                                    *)
(***************************************************************************)
\* largest number of .txt files in the fixture directory
MaxTests == 2

(***************************************************************************)
(* Character codes.  Dot stands for '.'; base names are written with two   *)
(* characters, 1 sorting before '.' and 3 after it; Ext is the extension   *)
(* every globbed file ends with.                                           *)
(***************************************************************************)
Dot == 2
Ext == <<Dot>>

SeqsUpTo(S, n) == UNION {[1..k -> S] : k \in 0..n}

\* base names of the files the fixture directory may hold; <<3, 1>> and <<3, 3>> are
\* the prefixes "type1_" and "type2_"
Stems == {<<1>>, <<1, 1>>, <<3, 1>>, <<3, 3>>}
FileNames == {s \o Ext : s \in Stems}
\* byte contents an expected or actual output file may have
Contents == {<<>>, <<0>>, <<0, 0>>, <<0, 1>>}

PcValues == {"clean", "compile", "run_tests", "loop", "summary", "exit", "exited"}
TestTypes == {"none", "type1", "type2"}
BuildOutcomes == {"no_src_dir", "no_java_files", "javac_missing", "javac_raises",
                  "javac_nonzero", "javac_ok"}
ProcOutcomes == {"timeout", "exception", "exit_nonzero", "exit_zero"}
Statuses == {"pass", "wrong_output", "runtime_error", "no_output", "timeout",
             "error", "skip", "benchmark_complete"}

(***************************************************************************)
(* Strings: comparison, sorting, glob patterns, base names.                *)
(***************************************************************************)
Min(a, b) == IF a < b THEN a ELSE b

\* Python's str "<": the first differing character decides, a proper prefix is smaller
LexLess(a, b) ==
    \/ \E i \in 1..Min(Len(a), Len(b)) :
          /\ a[i] < b[i]
          /\ \A j \in 1..(i - 1) : a[j] = b[j]
    \/ /\ Len(a) < Len(b)
       /\ \A j \in 1..Len(a) : a[j] = b[j]

RECURSIVE Insert(_, _)
Insert(x, s) ==
    IF s = <<>> THEN <<x>>
    ELSE IF LexLess(x, Head(s)) THEN <<x>> \o s
    ELSE <<Head(s)>> \o Insert(x, Tail(s))

\* a plausible slip: the glob order is returned as it comes
SortedUnsorted(s) == s

\* sorted(input_files): all paths share the directory prefix, so the file names decide
RECURSIVE Sorted(_)
Sorted(s) == IF s = <<>> THEN <<>> ELSE Insert(Head(s), Sorted(Tail(s)))

StartsWith(s, p) == Len(s) >= Len(p) /\ SubSeq(s, 1, Len(p)) = p
EndsWith(s, p) == Len(s) >= Len(p) /\ SubSeq(s, Len(s) - Len(p) + 1, Len(s)) = p

\* the characters of f"{test_type}_": both begin alike and differ in the digit
TypePrefix(t) == IF t = "type1" THEN <<3, 1>> ELSE <<3, 3>>

\* fnmatch of a file name against "*.txt" or f"{test_type}_*.txt"
Matches(f, t) ==
    IF t = "none" THEN EndsWith(f, Ext)
    ELSE /\ Len(f) >= Len(TypePrefix(t)) + Len(Ext)
         /\ StartsWith(f, TypePrefix(t))
         /\ EndsWith(f, Ext)

\* os.path.splitext(os.path.basename(input_file))[0]
Basename(f) == SubSeq(f, 1, Len(f) - Len(Ext))

\* what the fixture directory may hold: .txt files and files without the extension
DirNames == FileNames \cup Stems

\* the directory's entries in the arbitrary order in which the OS lists them
Listings ==
    {s \in SeqsUpTo(DirNames, MaxTests) : \A i, j \in 1..Len(s) : s[i] = s[j] => i = j}

\* glob.glob(os.path.join(TESTCASE_INPUT_DIR, pattern)) over a directory listing
Glob(listing, t) == SelectSeq(listing, LAMBDA f : Matches(f, t))

\* get_test_files(test_type); dir_exists is os.path.exists(TESTCASE_INPUT_DIR)
get_test_files(dir_exists, listing, t) ==
    IF ~dir_exists THEN <<>> ELSE Sorted(Glob(listing, t))

(***************************************************************************)
(* What one run_single_test call observes.  Fields the code does not read  *)
(* on the path taken keep their default value.                             *)
(*   expected_exists  os.path.exists(expected_file)                        *)
(*   proc             outcome of subprocess.run(["java", ...], timeout=30) *)
(*   output_exists    os.path.exists(actual_file) after the program ran    *)
(*   expected, actual the bytes of the two files                           *)
(*   readable         both files can be opened for reading                 *)
(*   decodable        both files decode as text                            *)
(***************************************************************************)
NotRun == [expected_exists |-> FALSE, proc |-> "not_run", output_exists |-> FALSE,
           expected |-> <<>>, actual |-> <<>>, readable |-> TRUE, decodable |-> TRUE]

AllEnvs == [expected_exists : BOOLEAN, proc : ProcOutcomes \cup {"not_run"},
            output_exists : BOOLEAN, expected : Contents, actual : Contents,
            readable : BOOLEAN, decodable : BOOLEAN]

\* the comparison of the two files is reached
Succeeded(e) == e.proc = "exit_zero" /\ e.output_exists
Compared(e, b) == ~b /\ e.expected_exists /\ Succeeded(e)

\* the environments a call may meet, by (verbose, benchmark)
TestEnvs ==
    [v \in BOOLEAN, b \in BOOLEAN |->
     {e \in AllEnvs :
        /\ (~b /\ ~e.expected_exists) <=> (e.proc = "not_run")
        /\ e.proc = "not_run" => e = NotRun
        /\ (~e.expected_exists \/ ~Succeeded(e)) => e.expected = <<>>
        /\ ~Succeeded(e) => e.actual = <<>>
        /\ ~Compared(e, b) => e.readable /\ e.decodable
        /\ (Compared(e, b) /\ Len(e.expected) # Len(e.actual) /\ ~v) => e.readable
        /\ (~v \/ ~e.readable \/ e.expected = e.actual) => e.decodable}]

(***************************************************************************)
(* run_single_test (src/tester.py 130-221).                                *)
(***************************************************************************)
\* a plausible slip: a shallow comparison, which takes files of equal size as equal
filecmp_shallow(e) ==
    IF Len(e.expected) # Len(e.actual) THEN "differ" ELSE "same"

\* filecmp.cmp(expected_file, actual_file, shallow=False): files of different size
\* differ without being read; otherwise both are read and compared byte by byte
filecmp(e) ==
    IF Len(e.expected) # Len(e.actual) THEN "differ"
    ELSE IF ~e.readable THEN "raise"
    ELSE IF \A i \in 1..Len(e.expected) : e.expected[i] = e.actual[i] THEN "same"
    ELSE "differ"

\* lines 194-210: the unified diff, or the placeholder when reading or decoding raises
make_diff(e) ==
    IF ~e.readable \/ ~e.decodable THEN "Could not generate diff"
    ELSE "unified_diff"

Result(name, status, msg, diff) ==
    [name |-> name, status |-> status, error_message |-> msg, diff |-> diff]

\* a plausible slip: the expected-file check is made in benchmark mode too
SkipsInBenchmarkToo(e, b) == ~e.expected_exists

\* line 147: the expected-file check, not made in benchmark mode
Skips(e, b) == ~b /\ ~e.expected_exists

\* a plausible slip: the output file is looked for before the exit code
process_status_output_first(e) ==
    IF e.proc = "timeout" THEN "timeout"
    ELSE IF e.proc = "exception" THEN "error"
    ELSE IF e.output_exists THEN "ok"
    ELSE IF e.proc # "exit_zero" THEN "runtime_error"
    ELSE "no_output"

\* lines 152-180 and 214-221: what running the program decides; "ok" is a zero exit
\* code with the output file present.  TimeoutExpired and any other exception leave
\* subprocess.run before the exit code or the output file is looked at.
process_status(e) ==
    IF e.proc = "timeout" THEN "timeout"
    ELSE IF e.proc = "exception" THEN "error"
    ELSE IF e.proc # "exit_zero" THEN "runtime_error"
    ELSE IF ~e.output_exists THEN "no_output"
    ELSE "ok"

\* a plausible slip: diff generation without its own try/except, so that its exception
\* reaches the handler of line 218
compare_files_diff_uncaught(e, v) ==
    IF filecmp(e) = "raise" THEN [status |-> "error", diff |-> "none"]
    ELSE IF filecmp(e) = "same" THEN [status |-> "pass", diff |-> "none"]
    ELSE IF v /\ make_diff(e) = "Could not generate diff"
    THEN [status |-> "error", diff |-> "none"]
    ELSE [status |-> "wrong_output", diff |-> IF v THEN make_diff(e) ELSE "none"]

\* lines 187-210 (and 218-221 when filecmp.cmp raises): status and diff of a comparison
compare_files(e, v) ==
    IF filecmp(e) = "raise" THEN [status |-> "error", diff |-> "none"]
    ELSE IF filecmp(e) = "same" THEN [status |-> "pass", diff |-> "none"]
    ELSE [status |-> "wrong_output", diff |-> IF v THEN make_diff(e) ELSE "none"]

ErrorMessage(status) ==
    IF status = "skip" THEN "No expected output file"
    ELSE IF status = "timeout" THEN "Test timed out (30s limit)"
    ELSE IF status = "error" THEN "str(e)"
    ELSE IF status = "runtime_error" THEN "Exit code"
    ELSE IF status = "no_output" THEN "No output file generated"
    ELSE ""

run_single_test(input_file, e, v, b) ==
    LET basename == Basename(input_file) IN
    IF Skips(e, b) THEN Result(basename, "skip", ErrorMessage("skip"), "none")
    ELSE IF process_status(e) # "ok"
    THEN Result(basename, process_status(e), ErrorMessage(process_status(e)), "none")
    ELSE IF b THEN Result(basename, "benchmark_complete", "", "none")
    ELSE LET c == compare_files(e, v)
         IN Result(basename, c.status, ErrorMessage(c.status), c.diff)

\* the java subprocess is started unless the test is skipped (lines 147-157)
Launches(e, b) == ~Skips(e, b)

(***************************************************************************)
(* run_tests: the tally of one result, the closing banner, the summary.    *)
(***************************************************************************)
Counters(p, f, s, c) == [passed |-> p, failed |-> f, skipped |-> s, completed |-> c]

\* a plausible slip: the status error is left out of the failure branch
TallyDropsError(c, status) ==
    IF status = "skip" THEN [c EXCEPT !.skipped = @ + 1]
    ELSE IF status = "benchmark_complete" THEN [c EXCEPT !.completed = @ + 1]
    ELSE IF status = "pass" THEN [c EXCEPT !.passed = @ + 1]
    ELSE IF status = "error" THEN c
    ELSE [c EXCEPT !.failed = @ + 1]

\* lines 271-306: the counter a result increments (the same under both verbosities)
Tally(c, status) ==
    IF status = "skip" THEN [c EXCEPT !.skipped = @ + 1]
    ELSE IF status = "benchmark_complete" THEN [c EXCEPT !.completed = @ + 1]
    ELSE IF status = "pass" THEN [c EXCEPT !.passed = @ + 1]
    ELSE [c EXCEPT !.failed = @ + 1]

\* a plausible slip: the all-passed banner also asks that nothing was skipped
BannerCountsSkips(c, total, v, b) ==
    IF b
    THEN IF c.failed = 0 /\ c.completed > 0 THEN "All benchmarks completed!"
         ELSE IF total = 0 THEN "No test cases found"
         ELSE IF c.failed > 0 THEN "Some benchmarks failed"
         ELSE "none"
    ELSE IF c.failed = 0 /\ c.skipped = 0 /\ total > 0
         THEN (IF v THEN "ALL TESTS PASSED!" ELSE "All tests passed!")
         ELSE IF total = 0 THEN "No test cases found"
         ELSE (IF v THEN "SOME TESTS FAILED" ELSE "Some tests failed")

\* lines 338-361: the closing banner chosen from the final counters
Banner(c, total, v, b) ==
    IF b
    THEN IF c.failed = 0 /\ c.completed > 0 THEN "All benchmarks completed!"
         ELSE IF total = 0 THEN "No test cases found"
         ELSE IF c.failed > 0 THEN "Some benchmarks failed"
         ELSE "none"
    ELSE IF c.failed = 0 /\ total > 0
         THEN (IF v THEN "ALL TESTS PASSED!" ELSE "All tests passed!")
         ELSE IF total = 0 THEN "No test cases found"
         ELSE (IF v THEN "SOME TESTS FAILED" ELSE "Some tests failed")

\* the four closing verdicts the banners stand for
VerdictKind(banner) ==
    IF banner \in {"ALL TESTS PASSED!", "All tests passed!"} THEN "all_passed"
    ELSE IF banner = "All benchmarks completed!" THEN "all_benchmarks_completed"
    ELSE IF banner = "No test cases found" THEN "no_tests_found"
    ELSE IF banner \in {"SOME TESTS FAILED", "Some tests failed", "Some benchmarks failed"}
    THEN "some_failures"
    ELSE "none"

\* lines 363-370 (and line 238 with zero counters): the returned dict
Summary(total, c) ==
    [total |-> total, passed |-> c.passed, failed |-> c.failed,
     skipped |-> c.skipped, completed |-> c.completed]

NoSummary == Summary(-1, Counters(0, 0, 0, 0))

(***************************************************************************)
(* main: the build result and the exit code.                               *)
(***************************************************************************)
\* a plausible slip: a source directory without .java files counts as built
compile_java_empty_ok(o) ==
    IF o = "no_src_dir" THEN FALSE
    ELSE IF o = "no_java_files" THEN TRUE
    ELSE IF o = "javac_missing" THEN FALSE
    ELSE IF o = "javac_raises" THEN FALSE
    ELSE IF o = "javac_nonzero" THEN FALSE
    ELSE TRUE

\* lines 80-116: the value compile_java returns for what it met
compile_java(o) ==
    IF o = "no_src_dir" THEN FALSE
    ELSE IF o = "no_java_files" THEN FALSE
    ELSE IF o = "javac_missing" THEN FALSE
    ELSE IF o = "javac_raises" THEN FALSE
    ELSE IF o = "javac_nonzero" THEN FALSE
    ELSE TRUE

\* a plausible slip: normal mode forgets that at least one test is needed
ExitCodeIgnoresTotal(sm, b) ==
    IF b
    THEN (IF sm.completed > 0 \/ sm.total = 0 THEN 0 ELSE 1)
    ELSE (IF sm.failed = 0 THEN 0 ELSE 1)

\* a plausible slip: benchmark mode succeeds only when something completed
ExitCodeNeedsCompleted(sm, b) ==
    IF b
    THEN (IF sm.completed > 0 THEN 0 ELSE 1)
    ELSE (IF sm.failed = 0 /\ sm.total > 0 THEN 0 ELSE 1)

\* lines 416-422
ExitCode(sm, b) ==
    IF b
    THEN (IF sm.completed > 0 \/ sm.total = 0 THEN 0 ELSE 1)
    ELSE (IF sm.failed = 0 /\ sm.total > 0 THEN 0 ELSE 1)

\* the run with --verbose flipped, before run_tests
TwinInit ==
    [results |-> <<>>, counters |-> Counters(0, 0, 0, 0), verdict |-> "none",
     summary |-> NoSummary, exit_code |-> -1]

(***************************************************************************)
(* The state machine.  Init is main() after parse_args has returned the    *)
(* flags (line 397); args.type is read once, by get_test_files, and is     *)
(* drawn where it is read.                                                 *)
(***************************************************************************)
Init ==
    /\ pc = "clean"
    /\ verbose \in BOOLEAN
    /\ benchmark \in BOOLEAN
    /\ cleaned = FALSE
    /\ build = "none"
    /\ compiled = FALSE
    /\ enumerated = FALSE
    /\ input_files = <<>>
    /\ results = <<>>
    /\ passed = 0
    /\ failed = 0
    /\ skipped = 0
    /\ completed = 0
    /\ attempts = <<>>
    /\ launched = <<>>
    /\ last = NotRun
    /\ verdict = "none"
    /\ summary = NoSummary
    /\ exit_code = -1
    /\ twin = TwinInit

\* main, line 407: clean_outputs() never fails the run
CleanOutputs ==
    /\ pc = "clean"
    /\ cleaned' = TRUE
    /\ pc' = "compile"
    /\ UNCHANGED <<verbose, benchmark, build, compiled, enumerated,
                   input_files, results, passed, failed, skipped, completed,
                   attempts, launched, last, verdict, summary, exit_code, twin>>

\* main, lines 410-411: compile_java(), and sys.exit(1) when it returns False
CompileJava ==
    /\ pc = "compile"
    /\ \E o \in BuildOutcomes :
          /\ build' = o
          /\ compiled' = compile_java(o)
          /\ IF ~compile_java(o)
             THEN /\ pc' = "exited"
                  /\ exit_code' = 1
                  /\ twin' = [twin EXCEPT !.exit_code = 1]
             ELSE /\ pc' = "run_tests"
                  /\ UNCHANGED <<exit_code, twin>>
    /\ UNCHANGED <<verbose, benchmark, cleaned, enumerated, input_files,
                   results, passed, failed, skipped, completed, attempts, launched,
                   last, verdict, summary>>

\* run_tests, lines 223-258: enumerate the fixtures; return at once when there are none
RunTestsBegin ==
    /\ pc = "run_tests"
    /\ \E test_type \in TestTypes, dir_exists \in BOOLEAN, listing \in Listings :
          /\ dir_exists \/ listing = <<>>
          /\ input_files' = get_test_files(dir_exists, listing, test_type)
    /\ enumerated' = TRUE
    /\ IF input_files' = <<>>
       THEN /\ verdict' = "No test cases found"
            /\ summary' = Summary(0, Counters(0, 0, 0, 0))
            /\ twin' = [twin EXCEPT !.verdict = "No test cases found",
                                    !.summary = Summary(0, Counters(0, 0, 0, 0))]
            /\ pc' = "exit"
       ELSE /\ pc' = "loop"
            /\ UNCHANGED <<verdict, summary, twin>>
    /\ results' = <<>>
    /\ passed' = 0
    /\ failed' = 0
    /\ skipped' = 0
    /\ completed' = 0
    /\ UNCHANGED <<verbose, benchmark, cleaned, build, compiled, attempts,
                   launched, last, exit_code>>

\* run_tests, lines 260-306: one iteration of the loop over input_files
RunTestsIter ==
    /\ pc = "loop"
    /\ Len(results) < Len(input_files)
    /\ LET input_file == input_files[Len(results) + 1] IN
       \E e \in TestEnvs[verbose, benchmark] :
          LET result == run_single_test(input_file, e, verbose, benchmark)
              c == Tally(Counters(passed, failed, skipped, completed), result.status)
              tresult == run_single_test(input_file, e, ~verbose, benchmark)
          IN /\ results' = Append(results, result)
             /\ passed' = c.passed
             /\ failed' = c.failed
             /\ skipped' = c.skipped
             /\ completed' = c.completed
             /\ attempts' = Append(attempts, input_file)
             /\ launched' = IF Launches(e, benchmark) THEN Append(launched, input_file)
                            ELSE launched
             /\ last' = e
             /\ twin' = [twin EXCEPT !.results = Append(@, tresult),
                                     !.counters = Tally(@, tresult.status)]
    /\ pc' = IF Len(results') = Len(input_files) THEN "summary" ELSE "loop"
    /\ UNCHANGED <<verbose, benchmark, cleaned, build, compiled, enumerated,
                   input_files, verdict, summary, exit_code>>

\* run_tests, lines 308-370: print the summary and the banner, return the dict
RunTestsSummary ==
    /\ pc = "summary"
    /\ LET total == Len(input_files)
           c == Counters(passed, failed, skipped, completed)
       IN /\ verdict' = Banner(c, total, verbose, benchmark)
          /\ summary' = Summary(total, c)
          /\ twin' = [twin EXCEPT
                        !.verdict = Banner(twin.counters, total, ~verbose, benchmark),
                        !.summary = Summary(total, twin.counters)]
    /\ pc' = "exit"
    /\ UNCHANGED <<verbose, benchmark, cleaned, build, compiled, enumerated,
                   input_files, results, passed, failed, skipped, completed, attempts,
                   launched, last, exit_code>>

\* main, lines 416-422: sys.exit with the code the summary decides
MainExit ==
    /\ pc = "exit"
    /\ exit_code' = ExitCode(summary, benchmark)
    /\ twin' = [twin EXCEPT !.exit_code = ExitCode(twin.summary, benchmark)]
    /\ pc' = "exited"
    /\ UNCHANGED <<verbose, benchmark, cleaned, build, compiled, enumerated,
                   input_files, results, passed, failed, skipped, completed, attempts,
                   launched, last, verdict, summary>>

Next ==
    \/ CleanOutputs
    \/ CompileJava
    \/ RunTestsBegin
    \/ RunTestsIter
    \/ RunTestsSummary
    \/ MainExit

Spec == Init /\ [][Next]_vars

(***************************************************************************)
(* Properties.                                                             *)
(***************************************************************************)
Last(s) == s[Len(s)]
Range(s) == {s[i] : i \in 1..Len(s)}
NumWith(rs, S) == Cardinality({i \in 1..Len(rs) : rs[i].status \in S})

FourFailures == {"timeout", "error", "runtime_error", "no_output"}
FailureStatuses == FourFailures \cup {"wrong_output"}

\* run_tests has entered its loop (there was at least one fixture)
InLoop == pc \in {"loop", "summary"} \/ (pc \in {"exit", "exited"} /\ input_files # <<>>)
\* run_tests has returned after its loop
Returned == pc \in {"exit", "exited"} /\ input_files # <<>>
\* run_single_test has just returned a result: last is what it observed
Ran == results # <<>>
\* the step that appends one result
IterStep == pc = "loop" /\ Len(results') = Len(results) + 1

\* C1: over n >= 1 fixtures, in either mode and whatever the executions did, every
\* result has a status of the closed set, every result has incremented exactly one
\* counter (passed counts the pass results, skipped the skip results, completed the
\* benchmark_complete results, failed all others), and once run_tests has returned
\* there is one result per fixture and total = passed + failed + skipped + completed
\* = number of results.
C1_OneStatusOneCounter ==
    InLoop =>
        /\ Len(results) <= Len(input_files)
        /\ \A i \in 1..Len(results) :
              /\ results[i].status \in Statuses
              /\ results[i].name = Basename(input_files[i])
        /\ passed = NumWith(results, {"pass"})
        /\ skipped = NumWith(results, {"skip"})
        /\ completed = NumWith(results, {"benchmark_complete"})
        /\ failed = NumWith(results, FailureStatuses)
        /\ passed + failed + skipped + completed = Len(results)
        /\ Returned =>
              /\ Len(results) = Len(input_files)
              /\ summary.total = Len(results)
              /\ summary.total = summary.passed + summary.failed + summary.skipped
                                 + summary.completed
              /\ summary = Summary(Len(results), Counters(passed, failed, skipped, completed))

C1_Witness ==
    /\ pc = "exited"
    /\ benchmark
    /\ Len(results) = 2
    /\ results[1].status = "error"
    /\ results[2].status = "benchmark_complete"
    /\ summary.total = 2

\* C3: compile_java runs only after clean_outputs; when the build fails for any of
\* its five causes main has exited with code 1 and no fixture was enumerated and no
\* test program started; fixtures are enumerated and test programs are started only
\* after compile_java has returned success.
C3_BuildFirst ==
    /\ build # "none" => cleaned
    /\ pc # "clean" => cleaned
    /\ compiled <=> (build = "javac_ok")
    /\ build \in {"no_src_dir", "no_java_files", "javac_missing", "javac_raises",
                  "javac_nonzero"} =>
          /\ pc = "exited"
          /\ exit_code = 1
          /\ ~enumerated
          /\ attempts = <<>>
          /\ launched = <<>>
    /\ enumerated => compiled
    /\ attempts # <<>> => compiled
    /\ launched # <<>> => compiled

C3_Witness ==
    /\ build = "no_java_files"
    /\ pc = "exited"
    /\ exit_code = 1

\* C4: in normal mode a test whose expected file is absent gets status skip, its
\* program is not started and it increments the skipped counter alone; a skip status
\* arises in no other way, so in benchmark mode no result is skip and every attempted
\* test is started, whether or not its expected file exists.
C4_SkipState ==
    /\ (Ran /\ ~benchmark /\ ~last.expected_exists) =>
          /\ Last(results).status = "skip"
          /\ last.proc = "not_run"
          /\ Last(attempts) \notin Range(launched)
    /\ \A i \in 1..Len(results) :
          (results[i].status = "skip") <=> (attempts[i] \notin Range(launched))
    /\ (Ran /\ Last(results).status = "skip") => (~benchmark /\ ~last.expected_exists)
    /\ benchmark => (launched = attempts /\ NumWith(results, {"skip"}) = 0 /\ skipped = 0)
    /\ (Ran /\ benchmark) => last.proc # "not_run"

C4_SkipStep ==
    (IterStep /\ Last(results').status = "skip") =>
        /\ skipped' = skipped + 1
        /\ passed' = passed
        /\ failed' = failed
        /\ completed' = completed
        /\ launched' = launched

C4_Skip == [](C4_SkipState) /\ [][C4_SkipStep]_vars

C4_Witness ==
    /\ pc = "exited"
    /\ ~benchmark
    /\ Len(results) = 2
    /\ results[1].status = "skip"
    /\ results[2].status = "pass"
    /\ skipped = 1
    /\ Len(launched) = 1

\* C5: after a successful build the fixtures are attempted once each, in the strictly
\* increasing lexicographic order of their file names, whatever status the earlier
\* ones ended with: the attempts so far are the first input files, the results carry
\* their names in the same order, the loop is left only when every fixture has a
\* result, and no fixture is attempted twice.
C5_InOrder ==
    /\ \A i, j \in 1..Len(input_files) : i < j => LexLess(input_files[i], input_files[j])
    /\ Len(attempts) = Len(results)
    /\ Len(results) <= Len(input_files)
    /\ \A i \in 1..Len(results) :
          /\ attempts[i] = input_files[i]
          /\ results[i].name = Basename(input_files[i])
    /\ \A i, j \in 1..Len(attempts) : attempts[i] = attempts[j] => i = j
    /\ pc = "loop" => Len(results) < Len(input_files)
    /\ pc \in {"summary", "exit", "exited"} /\ enumerated => Len(results) = Len(input_files)

C5_Witness ==
    /\ pc = "exited"
    /\ input_files = << <<1, 1, Dot>>, <<1, Dot>> >>
    /\ results[1].status = "timeout"
    /\ results[2].status = "error"
    /\ attempts = input_files

\* what the results say, read off the results themselves
NoneFailed == NumWith(results, FailureStatuses) = 0
SomeCompleted == NumWith(results, {"benchmark_complete"}) > 0
BuildFailed == build \notin {"none", "javac_ok"}

\* C2 as stated: the exit code is 0 when (normal mode) at least one test program ran
\* and none failed, or (benchmark mode) at least one test completed or there were no
\* tests; it is 1 otherwise, and 1 when the build fails.
C2_AsStated ==
    pc = "exited" =>
        exit_code = IF BuildFailed THEN 1
                    ELSE IF ~benchmark
                    THEN (IF launched # <<>> /\ NoneFailed THEN 0 ELSE 1)
                    ELSE (IF SomeCompleted \/ input_files = <<>> THEN 0 ELSE 1)

\* C2 amended: in normal mode the exit code is 0 when at least one fixture was
\* enumerated (skipped ones included, so also when no test program ran at all) and
\* none failed; the benchmark case and the build failure are as stated.
C2_ExitCode ==
    pc = "exited" =>
        exit_code = IF BuildFailed THEN 1
                    ELSE IF ~benchmark
                    THEN (IF input_files # <<>> /\ NoneFailed THEN 0 ELSE 1)
                    ELSE (IF SomeCompleted \/ input_files = <<>> THEN 0 ELSE 1)

C2_Witness ==
    /\ pc = "exited"
    /\ ~benchmark
    /\ Len(results) = 2
    /\ \A i \in 1..2 : results[i].status = "skip"
    /\ launched = <<>>
    /\ exit_code = 0

\* C6 as stated: after a zero exit code with the output file present, normal mode
\* gives pass exactly when the two files have the same bytes and wrong_output when
\* they differ; benchmark mode gives benchmark_complete whatever the files hold.
C6_AsStated ==
    (Ran /\ Succeeded(last)) =>
        IF benchmark THEN Last(results).status = "benchmark_complete"
        ELSE /\ (Last(results).status = "pass") <=> (last.expected = last.actual)
             /\ last.expected # last.actual => Last(results).status = "wrong_output"

\* C6 amended: the same, provided the comparison does not raise.  Files of different
\* sizes are wrong_output without being read; files of equal size that cannot be read
\* make the comparison raise, and the status is then error (not pass or wrong_output).
C6_Compare ==
    (Ran /\ Succeeded(last)) =>
        IF benchmark THEN Last(results).status = "benchmark_complete"
        ELSE IF Len(last.expected) = Len(last.actual) /\ ~last.readable
        THEN Last(results).status = "error"
        ELSE /\ (Last(results).status = "pass") <=> (last.expected = last.actual)
             /\ last.expected # last.actual => Last(results).status = "wrong_output"

C6_Witness ==
    /\ Ran
    /\ ~benchmark
    /\ Succeeded(last)
    /\ last.readable
    /\ last.expected = <<0, 0>>
    /\ last.actual = <<0, 1>>
    /\ Last(results).status = "wrong_output"

\* C7: for a test whose program was started, a timeout gives timeout whether or not
\* an output file exists; otherwise an exception of the invocation gives error;
\* otherwise a non-zero exit code gives runtime_error even when the output file
\* exists; otherwise a zero exit code without output file gives no_output.  A result
\* with one of these four statuses increments failed and no other counter, in both
\* modes.
C7_PrecedenceState ==
    (Ran /\ last.proc # "not_run") =>
        /\ last.proc = "timeout" => Last(results).status = "timeout"
        /\ last.proc = "exception" => Last(results).status = "error"
        /\ last.proc = "exit_nonzero" => Last(results).status = "runtime_error"
        /\ (last.proc = "exit_zero" /\ ~last.output_exists) =>
              Last(results).status = "no_output"
        /\ Last(results).status \in {"timeout", "runtime_error", "no_output"} =>
              ~Succeeded(last)

C7_FailedStep ==
    (IterStep /\ Last(results').status \in FourFailures) =>
        /\ failed' = failed + 1
        /\ passed' = passed
        /\ skipped' = skipped
        /\ completed' = completed

C7_Precedence == [](C7_PrecedenceState) /\ [][C7_FailedStep]_vars

C7_Witness ==
    /\ Ran
    /\ benchmark
    /\ last.proc = "exit_nonzero"
    /\ last.output_exists
    /\ Last(results).status = "runtime_error"
    /\ failed = 1
    /\ completed = 1

\* C8: the run with the verbose flag flipped, fed the same fixtures and the same
\* program behaviour, gives every test the same status, has the same counters,
\* returns the same summary, prints a banner of the same kind and exits with the same
\* code; and when diff generation raises in verbose mode the result carries the
\* placeholder, stays wrong_output and is recorded like any other.
C8_VerboseNeutral ==
    /\ Len(twin.results) = Len(results)
    /\ \A i \in 1..Len(results) :
          /\ twin.results[i].status = results[i].status
          /\ twin.results[i].name = results[i].name
    /\ twin.counters = Counters(passed, failed, skipped, completed)
    /\ twin.summary = summary
    /\ VerdictKind(twin.verdict) = VerdictKind(verdict)
    /\ twin.exit_code = exit_code
    /\ (Ran /\ verbose /\ Compared(last, benchmark) /\ filecmp(last) = "differ"
        /\ (~last.readable \/ ~last.decodable)) =>
          /\ Last(results).status = "wrong_output"
          /\ Last(results).diff = "Could not generate diff"
          /\ Last(twin.results).diff = "none"

C8_Witness ==
    /\ pc = "exited"
    /\ verbose
    /\ Len(results) = 2
    /\ results[1].diff = "Could not generate diff"
    /\ results[1].status = "wrong_output"
    /\ results[2].diff = "unified_diff"
    /\ failed = 2
    /\ exit_code = 1

\* C9 as stated: with zero fixtures after a successful build no test program is
\* started, the summary is all zeros, the verdict is no-tests-found and the exit code
\* is not 0.
C9_AsStated ==
    (pc = "exited" /\ compiled /\ input_files = <<>>) =>
        /\ launched = <<>>
        /\ summary = Summary(0, Counters(0, 0, 0, 0))
        /\ VerdictKind(verdict) = "no_tests_found"
        /\ exit_code # 0

\* C9 amended: the same, but the exit code is 1 in normal mode only; in benchmark
\* mode a run with zero fixtures exits with code 0.
C9_NoTests ==
    (pc \in {"exit", "exited"} /\ compiled /\ input_files = <<>>) =>
        /\ launched = <<>>
        /\ attempts = <<>>
        /\ results = <<>>
        /\ summary = Summary(0, Counters(0, 0, 0, 0))
        /\ VerdictKind(verdict) = "no_tests_found"
        /\ pc = "exited" => exit_code = (IF benchmark THEN 0 ELSE 1)

C9_Witness ==
    /\ pc = "exited"
    /\ compiled
    /\ enumerated
    /\ input_files = <<>>
    /\ benchmark
    /\ exit_code = 0

SuccessVerdicts == {"all_passed", "all_benchmarks_completed"}

\* C10 as stated: after a successful build, in both modes, the exit code is 0 exactly
\* when the closing verdict is all-passed or all-benchmarks-completed.
C10_AsStated ==
    (pc = "exited" /\ compiled) =>
        ((exit_code = 0) <=> (VerdictKind(verdict) \in SuccessVerdicts))

\* C10 amended: in normal mode the exit code is 0 exactly when the verdict is
\* all-passed.  In benchmark mode all-benchmarks-completed exits with 0, but so does
\* no-tests-found, and so does some-failures whenever at least one benchmark
\* completed (it exits with 1 when none did).
C10_VerdictAndExit ==
    (pc = "exited" /\ compiled) =>
        IF ~benchmark
        THEN /\ VerdictKind(verdict) \in {"all_passed", "no_tests_found", "some_failures"}
             /\ (exit_code = 0) <=> (VerdictKind(verdict) = "all_passed")
        ELSE /\ VerdictKind(verdict) \in
                   {"all_benchmarks_completed", "no_tests_found", "some_failures"}
             /\ VerdictKind(verdict) = "all_benchmarks_completed" => exit_code = 0
             /\ VerdictKind(verdict) = "no_tests_found" => exit_code = 0
             /\ VerdictKind(verdict) = "some_failures" =>
                   ((exit_code = 0) <=> SomeCompleted)

C10_Witness ==
    /\ pc = "exited"
    /\ benchmark
    /\ VerdictKind(verdict) = "some_failures"
    /\ SomeCompleted
    /\ exit_code = 0

====
